---- MODULE Spec2Model ----
(***************************************************************************)
(* TA-Nexus-OS: the orchestrator's fan-out / join / merge                  *)
(* (core/orchestrator.py, services/market_service.py), the two-pass        *)
(* evaluation pipeline (core/evaluator.py), the risk sentinel              *)
(* (core/risk_sentinel.py), the memory compactor (core/memory_manager.py)  *)
(* and the request handlers (api/index.py, endpoints/score_candidate.py,   *)
(* tools/file_processor.py, services/security_service.py).                 *)
(*                                                                         *)
(* Five specifications share the module:                                   *)
(*   SpecAnalysis  one call of Orchestrator.run_analysis on the asyncio    *)
(*                 event loop;                                             *)
(*   SpecEvaluate  one call of evaluate_answers;                           *)
(*   SpecRisk      one call of build_risk_matrix;                          *)
(*   SpecMemory    should_compact followed by compact_session;             *)
(*   SpecApi       one request to analyze_candidate, evaluate_screening,   *)
(*                 process_cv or upload_cv.                                *)
(* Money is in whole SAR; scores are integers as the pydantic models       *)
(* declare them; a float rounded to one decimal is held in tenths.         *)
(***************************************************************************)
EXTENDS Integers, Sequences, FiniteSets, TLC

VARIABLES
    \* ---- Orchestrator.run_analysis ----
    salary_ask,       \* argument salary_ask
    company_symbol,   \* candidate_data.get("company_stock_symbol") is truthy
    ra_pc,            \* position of run_analysis
    ready,            \* the event loop's FIFO of tasks ready to step
    task,             \* state of the three tasks gather() wraps
    result,           \* value each task returned
    d_pc,             \* position of get_market_intelligence
    salary_data,      \* SalaryBenchmark held by get_market_intelligence
    resp,             \* what each external call answered
    worker_d,         \* WorkerDReport built after the join
    risk_score,
    red_flash,
    final_decision,
    report,           \* what run_analysis returned
    \* ---- evaluate_answers ----
    ev_pc,            \* Scoring -> Validating -> Done | Degraded
    requests,         \* oracle requests issued so far, in order
    eval_data,        \* parsed pass-1 output
    normalized_score,
    validated_score,
    was_adjusted,
    ev_result,        \* the EvaluationResult returned
    \* ---- build_risk_matrix ----
    rm_in,            \* the arguments
    rm_pc,            \* position of build_risk_matrix
    skill_gap,        \* SkillGapResult
    retention,        \* RetentionRisk
    rm_salary,        \* SalaryRisk
    cultural,         \* CulturalRisk
    matrix,           \* the RiskMatrix returned
    \* ---- MemoryManager ----
    mm_in,            \* conversation_text, threshold_tokens
    mm_pc,            \* position of the caller
    mm_should,        \* what should_compact returned
    mm_response,      \* what generate_content answered
    mm_parsed,        \* summary and key_facts after the try block
    mm_result,        \* what compact_session returned
    \* ---- routes, evaluate_screening, process_cv ----
    api_in,           \* the request: operation and file name
    api_read,         \* outcome of the last single-row select
    api_pc,           \* position of the operation
    api_log,          \* calls made so far, in order
    api_eval,         \* EvaluationResult held by evaluate_screening
    api_scan,         \* SecurityScanResult held by process_cv / upload_cv
    api_pdf,          \* pdf_available
    api_out           \* what the operation handed to its caller

orchVars == <<salary_ask, company_symbol, ra_pc, ready, task, result, d_pc,
              salary_data, resp, worker_d, risk_score, red_flash,
              final_decision, report>>
evalVars == <<ev_pc, requests, eval_data, normalized_score, validated_score,
              was_adjusted, ev_result>>
riskVars == <<rm_in, rm_pc, skill_gap, retention, rm_salary, cultural, matrix>>
memVars == <<mm_in, mm_pc, mm_should, mm_response, mm_parsed, mm_result>>
apiVars ==
    <<api_in, api_read, api_pc, api_log, api_eval, api_scan, api_pdf, api_out>>
vars == <<orchVars, evalVars, riskVars, memVars, apiVars>>

None == [kind |-> "none"]

(***************************************************************************)
(* Orchestrator                                                            *)
(***************************************************************************)
Workers == {"A", "C", "D"}
Calls == {"A", "C", "adzuna", "marketstack", "summary"}

\* Inputs of run_analysis and answers of the outside world the model draws from.
AskValues == {0, 9500, 11500, 13000, 19500}
AverageValues == {10000, 13000}
ScoreValuesC == {0, 59, 60, 84, 85, 90}
RiskLevels == {"low", "medium", "high"}
Recommendations == {"advance", "screen", "reject"}
Trends == {"growing", "declining", "stable"}

\* What an oracle call of a worker can come back with: the call raises, the
\* text is no JSON, the JSON does not fit the pydantic model, or it fits.
OracleKinds == {"error", "garbled", "illtyped", "ok"}

\* run_worker_a's except branch.
FallbackA ==
    [vision_2030_alignment |-> "MEDIUM", domain_color |-> "yellow",
     domain_alert |-> FALSE]

\* Reports WorkerAReport(**data) accepts.
ParsedA ==
    [vision_2030_alignment : {"HIGH", "LOW"}, domain_color : {"green", "red"},
     domain_alert : BOOLEAN]

run_worker_a(kind, data) == IF kind = "ok" THEN data ELSE FallbackA

\* Mutant of FallbackC: the fallback report carries risk_level "high".
FallbackCHigh ==
    [overall_score |-> 50, skill_match_pct |-> 50,
     recommendation |-> "screen", risk_level |-> "high"]

\* run_worker_c's except branch.
FallbackC ==
    [overall_score |-> 50, skill_match_pct |-> 50,
     recommendation |-> "screen", risk_level |-> "medium"]

\* Reports WorkerCReport(**data) accepts.
ParsedC ==
    [overall_score : ScoreValuesC, skill_match_pct : {80},
     recommendation : Recommendations, risk_level : RiskLevels]

\* Mutant of run_worker_c: for a response that fails validation the
\* fields that did parse are kept and only the score is defaulted.
run_worker_c_partial(kind, data) ==
    IF kind = "ok" THEN data
    ELSE IF kind = "illtyped" THEN [data EXCEPT !.overall_score = 50]
    ELSE FallbackC

run_worker_c(kind, data) == IF kind = "ok" THEN data ELSE FallbackC

\* get_salary_benchmark once client.get has answered: the estimate for a
\* non-200 answer or a result page without salaries, the page's mean otherwise.
SalaryBenchmark(kind, avg) ==
    IF kind = "ok"
    THEN [average_salary |-> avg, job_count |-> 1]
    ELSE [average_salary |-> 15000, job_count |-> 0]

\* get_company_health once client.get has answered.
CompanyHealth(kind, trend) ==
    IF kind = "ok"
    THEN [data_available |-> TRUE, trend |-> trend]
    ELSE [data_available |-> FALSE, trend |-> ""]

\* Mutant of SalaryRisk: "medium" from an overage of 20 percent.
SalaryRiskTwenty(ask, average) ==
    IF ask > 0 /\ average > 0
    THEN IF (ask - average) * 100 >= 30 * average THEN "high"
         ELSE IF (ask - average) * 100 >= 20 * average THEN "medium"
         ELSE "low"
    ELSE "unknown"

\* The salary risk calculation of get_market_intelligence.
SalaryRisk(ask, average) ==
    IF ask > 0 /\ average > 0
    THEN IF (ask - average) * 100 >= 30 * average THEN "high"
         ELSE IF (ask - average) * 100 >= 15 * average THEN "medium"
         ELSE "low"
    ELSE "unknown"

MarketIntelligence(salary, company, ask) ==
    [salary |-> salary, company |-> company,
     salary_risk |-> SalaryRisk(ask, salary.average_salary)]

\* WorkerDReport(...) of run_analysis.
WorkerDReport(market_intel) ==
    [market |-> market_intel,
     salary_risk |-> market_intel.salary_risk,
     company_trend |-> IF market_intel.company # None
                       THEN market_intel.company.trend ELSE "unknown",
     financial_alert |-> (market_intel.salary_risk = "high")]

\* Mutant of CompositeRisk: the salary and domain weights exchanged.
CompositeRiskSwapped(c, d, a) ==
      (IF c.risk_level = "high" THEN 40 ELSE 0)
    + (IF d.salary_risk = "high" THEN 25 ELSE 0)
    + (IF a.domain_alert THEN 35 ELSE 0)

\* Risk score for the red flash logic.
CompositeRisk(c, d, a) ==
      (IF c.risk_level = "high" THEN 40 ELSE 0)
    + (IF d.salary_risk = "high" THEN 35 ELSE 0)
    + (IF a.domain_alert THEN 25 ELSE 0)

\* Mutant of RedFlash: two signals of any kind are enough.
RedFlashSixty(score) == score >= 60

RedFlash(score) == score >= 70

\* Mutant of FinalDecision: the red flash does not gate "advance".
FinalDecisionUngated(overall_score, flash) ==
    IF overall_score >= 85 THEN "advance"
    ELSE IF overall_score >= 60 THEN "screen"
    ELSE "reject"

FinalDecision(overall_score, flash) ==
    IF overall_score >= 85 /\ ~flash THEN "advance"
    ELSE IF overall_score >= 60 THEN "screen"
    ELSE "reject"

\* asyncio.gather without return_exceptions: the awaiting coroutine resumes
\* when every child has finished, or as soon as one child has raised.
AllDone == \A w \in Workers : task[w] = "done"
AnyFailed == \E w \in Workers : task[w] = "failed"
\* Mutant of GatherReady: the join returns with the first finished child.
GatherReadyFirst == (\E w \in Workers : task[w] = "done") \/ AnyFailed
GatherReady == AllDone \/ AnyFailed

OrchIdle ==
    /\ ra_pc = "start"
    /\ ready = <<>>
    /\ task = [w \in Workers |-> "created"]
    /\ result = [w \in Workers |-> None]
    /\ d_pc = "created"
    /\ salary_data = None
    /\ resp = [c \in Calls |-> "none"]
    /\ worker_d = None
    /\ risk_score = 0
    /\ red_flash = FALSE
    /\ final_decision = "none"
    /\ report = None

\* run_analysis up to its await: the three coroutines are created and
\* gather() schedules one task for each, in argument order.
StartAnalysis ==
    /\ ra_pc = "start"
    /\ ra_pc' = "gather"
    /\ ready' = <<"A", "C", "D">>
    /\ task' = [w \in Workers |-> "scheduled"]
    /\ UNCHANGED <<salary_ask, company_symbol, result, d_pc, salary_data, resp,
                   worker_d, risk_score, red_flash, final_decision, report>>

\* The task of run_worker_a takes its step.  call_gemini awaits nothing
\* (generate_content is a blocking call), so the step runs the worker to its
\* return.
RunWorkerA ==
    /\ ready # <<>> /\ Head(ready) = "A"
    /\ \E kind \in OracleKinds, data \in ParsedA :
          /\ resp' = [resp EXCEPT !["A"] = kind]
          /\ result' = [result EXCEPT !["A"] = run_worker_a(kind, data)]
    /\ task' = [task EXCEPT !["A"] = "done"]
    /\ ready' = Tail(ready)
    /\ UNCHANGED <<salary_ask, company_symbol, ra_pc, d_pc, salary_data,
                   worker_d, risk_score, red_flash, final_decision, report>>

\* Mutant of RunWorkerC: the worker also writes into worker A's result.
RunWorkerCShared ==
    /\ ready # <<>> /\ Head(ready) = "C"
    /\ \E kind \in OracleKinds, data \in ParsedC :
          /\ resp' = [resp EXCEPT !["C"] = kind]
          /\ result' = [result EXCEPT
                            !["C"] = run_worker_c(kind, data),
                            !["A"] = [@ EXCEPT !.domain_alert = TRUE]]
    /\ task' = [task EXCEPT !["C"] = "done"]
    /\ ready' = Tail(ready)
    /\ UNCHANGED <<salary_ask, company_symbol, ra_pc, d_pc, salary_data,
                   worker_d, risk_score, red_flash, final_decision, report>>

RunWorkerC ==
    /\ ready # <<>> /\ Head(ready) = "C"
    /\ \E kind \in OracleKinds, data \in ParsedC :
          /\ resp' = [resp EXCEPT !["C"] = kind]
          /\ result' = [result EXCEPT !["C"] = run_worker_c(kind, data)]
    /\ task' = [task EXCEPT !["C"] = "done"]
    /\ ready' = Tail(ready)
    /\ UNCHANGED <<salary_ask, company_symbol, ra_pc, d_pc, salary_data,
                   worker_d, risk_score, red_flash, final_decision, report>>

\* The task of get_market_intelligence runs to client.get of
\* get_salary_benchmark and suspends there.
StartWorkerD ==
    /\ ready # <<>> /\ Head(ready) = "D"
    /\ ready' = Tail(ready)
    /\ task' = [task EXCEPT !["D"] = "waiting"]
    /\ d_pc' = "adzuna"
    /\ UNCHANGED <<salary_ask, company_symbol, ra_pc, result, salary_data, resp,
                   worker_d, risk_score, red_flash, final_decision, report>>

\* The salary provider answers (or the request raises).  Nothing catches
\* the httpx exception, so it ends the task.
AdzunaResponse ==
    /\ d_pc = "adzuna"
    /\ \E kind \in {"neterr", "non200", "empty", "ok"}, avg \in AverageValues :
          /\ resp' = [resp EXCEPT !["adzuna"] = kind]
          /\ IF kind = "neterr"
             THEN /\ task' = [task EXCEPT !["D"] = "failed"]
                  /\ d_pc' = "raised"
                  /\ UNCHANGED <<salary_data, result>>
             ELSE /\ salary_data' = SalaryBenchmark(kind, avg)
                  /\ IF company_symbol
                     THEN /\ d_pc' = "marketstack"
                          /\ UNCHANGED <<task, result>>
                     ELSE /\ d_pc' = "returned"
                          /\ task' = [task EXCEPT !["D"] = "done"]
                          /\ result' = [result EXCEPT !["D"] =
                                 MarketIntelligence(salary_data', None, salary_ask)]
    /\ UNCHANGED <<salary_ask, company_symbol, ra_pc, ready, worker_d,
                   risk_score, red_flash, final_decision, report>>

\* The stock provider answers (or the request raises).
MarketstackResponse ==
    /\ d_pc = "marketstack"
    /\ \E kind \in {"neterr", "non200", "nodata", "ok"}, trend \in Trends :
          /\ resp' = [resp EXCEPT !["marketstack"] = kind]
          /\ IF kind = "neterr"
             THEN /\ task' = [task EXCEPT !["D"] = "failed"]
                  /\ d_pc' = "raised"
                  /\ UNCHANGED result
             ELSE /\ d_pc' = "returned"
                  /\ task' = [task EXCEPT !["D"] = "done"]
                  /\ result' = [result EXCEPT !["D"] =
                         MarketIntelligence(salary_data,
                                            CompanyHealth(kind, trend), salary_ask)]
    /\ UNCHANGED <<salary_ask, company_symbol, ra_pc, ready, salary_data,
                   worker_d, risk_score, red_flash, final_decision, report>>

\* run_analysis resumes from `await asyncio.gather(...)`.
GatherResume ==
    /\ ra_pc = "gather"
    /\ GatherReady
    /\ ra_pc' = IF AnyFailed THEN "raised" ELSE "merge"
    /\ UNCHANGED <<salary_ask, company_symbol, ready, task, result, d_pc,
                   salary_data, resp, worker_d, risk_score, red_flash,
                   final_decision, report>>

\* WorkerDReport, the risk score, red_flash and final_decision.
Merge ==
    /\ ra_pc = "merge"
    /\ worker_d' = WorkerDReport(result["D"])
    /\ risk_score' = CompositeRisk(result["C"], worker_d', result["A"])
    /\ red_flash' = RedFlash(risk_score')
    /\ final_decision' = FinalDecision(result["C"].overall_score, red_flash')
    /\ ra_pc' = "summary"
    /\ UNCHANGED <<salary_ask, company_symbol, ready, task, result, d_pc,
                   salary_data, resp, report>>

\* The executive summary call and the report.  call_gemini is awaited
\* outside any try, so its exception leaves run_analysis.
Summary ==
    /\ ra_pc = "summary"
    /\ \E kind \in {"error", "ok"} :
          /\ resp' = [resp EXCEPT !["summary"] = kind]
          /\ IF kind = "error"
             THEN /\ ra_pc' = "raised"
                  /\ UNCHANGED report
             ELSE /\ ra_pc' = "returned"
                  /\ report' = [worker_a |-> result["A"],
                                worker_c |-> result["C"],
                                worker_d |-> worker_d,
                                final_decision |-> final_decision,
                                red_flash |-> red_flash]
    /\ UNCHANGED <<salary_ask, company_symbol, ready, task, result, d_pc,
                   salary_data, worker_d, risk_score, red_flash, final_decision>>

(***************************************************************************)
(* Evaluator: evaluate_answers                                             *)
(***************************************************************************)
MaxQuestions == 3

\* Per-question scores the pass-1 oracle may return; the prompt asks for
\* 0-20 and nothing enforces it.
ScoreValues == {-1, 0, 7, 20, 23}
\* validated_score values the pass-2 oracle may return; the prompt asks for
\* 0-100 and nothing enforces it.
ValidatedValues == {-5, 0, 59, 60, 84, 85, 100, 150}

\* Optional top-level keys of the pass-1 JSON that evaluate_answers reads
\* with eval_data.get(key, default), and the values the oracle gives them.
OptionalKeys ==
    {"weaknesses", "cultural_fit_score", "technical_score", "behavioral_score"}
OracleValue ==
    [weaknesses |-> <<"slow answers">>, cultural_fit_score |-> 80,
     technical_score |-> 70, behavioral_score |-> 60]

\* Pass-1 answers: the call raises; the text is no JSON; the JSON is no
\* object; a "score" is no number; a field does not fit EvaluationResult or
\* QuestionScore; or the JSON is as asked for.
Pass1Kinds == {"error", "garbled", "nondict", "badscore", "illtyped", "ok"}
\* Pass-2 answers: as above, validated_score no number, the key left out,
\* or an integer.
Pass2Kinds == {"error", "garbled", "nondict", "nonnumeric", "omitted", "int"}

ScoreLists == UNION {[1..n -> ScoreValues] : n \in 0..MaxQuestions}

Abs(x) == IF x < 0 THEN -x ELSE x

RECURSIVE SumSeq(_)
SumSeq(s) == IF s = <<>> THEN 0 ELSE Head(s) + SumSeq(Tail(s))

\* (raw, max_possible) pairs for which the double (raw / max_possible) * 100
\* falls just below the integer it stands for, so that int() yields one
\* less: all such pairs with 0 < raw <= 120 and max_possible in 20, 40 .. 100.
FloatShortfall ==
    {<<23, 20>>, <<41, 20>>, <<46, 20>>, <<51, 20>>, <<82, 20>>, <<87, 20>>,
     <<92, 20>>, <<97, 20>>, <<102, 20>>, <<46, 40>>, <<82, 40>>, <<92, 40>>,
     <<102, 40>>, <<69, 60>>, <<92, 80>>, <<29, 100>>, <<57, 100>>,
     <<58, 100>>, <<113, 100>>, <<114, 100>>, <<115, 100>>, <<116, 100>>}

\* Mutant of IntPercent: round() in place of int().
IntPercentRounded(raw_total, max_possible) ==
    LET m == IF max_possible > 1 THEN max_possible ELSE 1
    IN  (200 * raw_total + m) \div (2 * m)

\* int((raw_total / max(max_possible, 1)) * 100): float division and
\* product, then truncation toward zero.
IntPercent(raw_total, max_possible) ==
    LET m == IF max_possible > 1 THEN max_possible ELSE 1
        mag == (Abs(raw_total) * 100) \div m
               - (IF <<Abs(raw_total), m>> \in FloatShortfall THEN 1 ELSE 0)
    IN  IF raw_total < 0 THEN -mag ELSE mag

NormalizedScore(scores_data) ==
    IntPercent(SumSeq(scores_data), Len(scores_data) * 20)

\* Mutant of ValidatedScore: the pass-1 score is kept.
ValidatedScoreIgnored(kind, value, total_score) == total_score

\* data.get("validated_score", total_score)
ValidatedScore(kind, value, total_score) ==
    IF kind = "int" THEN value ELSE total_score

WasAdjusted(validated, total_score) == Abs(validated - total_score) > 5

\* Mutant of Recommendation: the "advance" bound is exclusive.
RecommendationExclusive(validated) ==
    IF validated > 85 THEN "advance"
    ELSE IF validated >= 60 THEN "screen"
    ELSE "reject"

\* Final recommendation.
Recommendation(validated) ==
    IF validated >= 85 THEN "advance"
    ELSE IF validated >= 60 THEN "screen"
    ELSE "reject"

Get(data, key, default) ==
    IF key \in data.present THEN OracleValue[key] ELSE default

\* The EvaluationResult of the try branch.
ValidatedResult(data, validated) ==
    [total_score |-> validated,
     score_breakdown |-> data.scores,
     weaknesses |-> Get(data, "weaknesses", <<>>),
     cultural_fit_score |-> Get(data, "cultural_fit_score", 50),
     technical_score |-> Get(data, "technical_score", 50),
     behavioral_score |-> Get(data, "behavioral_score", 50),
     recommendation |-> Recommendation(validated),
     validated |-> TRUE]

\* Mutant of DegradedResult: the failure is reported as a reject.
DegradedResultReject ==
    [total_score |-> 0,
     score_breakdown |-> <<>>,
     weaknesses |-> <<"Evaluation error - manual review required">>,
     cultural_fit_score |-> 50,
     technical_score |-> 50,
     behavioral_score |-> 50,
     recommendation |-> "reject",
     validated |-> FALSE]

\* The EvaluationResult of the except branch.
DegradedResult ==
    [total_score |-> 50,
     score_breakdown |-> <<>>,
     weaknesses |-> <<"Evaluation error - manual review required">>,
     cultural_fit_score |-> 50,
     technical_score |-> 50,
     behavioral_score |-> 50,
     recommendation |-> "screen",
     validated |-> FALSE]

\* Mutant of Pass1Usable: unparsed pass-1 text is passed on to pass 2.
Pass1UsableLax(kind) == kind \in {"garbled", "illtyped", "ok"}

\* Whether the pass-1 answer gets evaluate_answers to its pass-2 call:
\* _evaluate_answers returned a dict and the scores summed.
Pass1Usable(kind) == kind \in {"illtyped", "ok"}

\* Whether _validate_score returns.
Pass2Usable(kind) == kind \in {"omitted", "int"}

EvalIdle ==
    /\ ev_pc = "scoring"
    /\ requests = <<>>
    /\ eval_data = None
    /\ normalized_score = 0
    /\ validated_score = 0
    /\ was_adjusted = FALSE
    /\ ev_result = None

\* Pass 1 and the normalisation.
Pass1 ==
    /\ ev_pc = "scoring"
    /\ \E kind \in Pass1Kinds, scores \in ScoreLists,
          present \in SUBSET OptionalKeys :
          /\ requests' = Append(requests, [pass |-> "pass1", kind |-> kind,
                                            value |-> 0])
          /\ IF Pass1Usable(kind)
             THEN /\ eval_data' = [scores |-> scores, present |-> present,
                                   fits |-> (kind = "ok")]
                  /\ normalized_score' = NormalizedScore(scores)
                  /\ ev_pc' = "validating"
                  /\ UNCHANGED ev_result
             ELSE /\ ev_result' = DegradedResult
                  /\ ev_pc' = "degraded"
                  /\ UNCHANGED <<eval_data, normalized_score>>
    /\ UNCHANGED <<validated_score, was_adjusted>>

\* Pass 2, the breakdown, the recommendation and the result.
Pass2 ==
    /\ ev_pc = "validating"
    /\ \E kind \in Pass2Kinds, value \in ValidatedValues :
          /\ requests' = Append(requests,
                 [pass |-> "pass2", kind |-> kind,
                  value |-> IF kind = "int" THEN value ELSE 0])
          /\ IF Pass2Usable(kind)
             THEN /\ validated_score' =
                         ValidatedScore(kind, value, normalized_score)
                  /\ was_adjusted' =
                         WasAdjusted(validated_score', normalized_score)
                  /\ IF eval_data.fits
                     THEN /\ ev_result' =
                                 ValidatedResult(eval_data, validated_score')
                          /\ ev_pc' = "done"
                     ELSE /\ ev_result' = DegradedResult
                          /\ ev_pc' = "degraded"
             ELSE /\ ev_result' = DegradedResult
                  /\ ev_pc' = "degraded"
                  /\ UNCHANGED <<validated_score, was_adjusted>>
    /\ UNCHANGED <<eval_data, normalized_score>>

(***************************************************************************)
(* Risk sentinel: build_risk_matrix and its four calculators               *)
(***************************************************************************)
MaxSkills == 109
MaxRequired == 7
MaxJobs == 3
MaxAnswers == 2

\* A raised ZeroDivisionError.
ZeroDivisionError == [kind |-> "ZeroDivisionError"]

Min(a, b) == IF a < b THEN a ELSE b
Max(a, b) == IF a > b THEN a ELSE b

\* round(num / den) for den > 0, ties to the even neighbour.
RoundHalfEven(num, den) ==
    LET q == num \div den
        r == num % den
    IN  IF 2 * r > den THEN q + 1
        ELSE IF 2 * r < den THEN q
        ELSE IF q % 2 = 0 THEN q ELSE q + 1

\* str.lower() and str.strip(), character by character.
UpperCase == "ABCDEFGHIJKLMNOPQRSTUVWXYZ"
LowerCase == "abcdefghijklmnopqrstuvwxyz"
Whitespace == {" ", "\t", "\n", "\r"}
Char(s, i) == SubSeq(s, i, i)

LowerChar(c) ==
    IF \E i \in 1..26 : Char(UpperCase, i) = c
    THEN Char(LowerCase, CHOOSE i \in 1..26 : Char(UpperCase, i) = c)
    ELSE c

RECURSIVE Lower(_)
Lower(s) ==
    IF Len(s) = 0 THEN ""
    ELSE IF Len(s) = 1 THEN LowerChar(s)
    ELSE LET half == Len(s) \div 2
         IN  Lower(SubSeq(s, 1, half)) \o Lower(SubSeq(s, half + 1, Len(s)))

RECURSIVE LStrip(_)
LStrip(s) ==
    IF s # "" /\ Char(s, 1) \in Whitespace
    THEN LStrip(SubSeq(s, 2, Len(s))) ELSE s

RECURSIVE RStrip(_)
RStrip(s) ==
    IF s # "" /\ Char(s, Len(s)) \in Whitespace
    THEN RStrip(SubSeq(s, 1, Len(s) - 1)) ELSE s

Strip(s) == RStrip(LStrip(s))

\* Mutant of Normalize: the skills are lowercased and not trimmed.
NormalizeUntrimmed(skills) == {Lower(skills[i]) : i \in DOMAIN skills}

\* {s.lower().strip() for s in skills}
Normalize(skills) == {Strip(Lower(skills[i])) : i \in DOMAIN skills}

\* Mutant of SkillGuard: the division is not guarded.
SkillGuardAlways(req_normalized) == TRUE

\* `if req_normalized`: the guard of the match_pct division.
SkillGuard(req_normalized) == req_normalized # {}

Severity(num, den) ==
    IF num >= 85 * den THEN "low"
    ELSE IF num >= 65 * den THEN "medium"
    ELSE IF num >= 45 * den THEN "high"
    ELSE "critical"

\* (matched, required) counts up to 130 required skills for which the double
\* matched / required * 100 misses the exact tie, and by how many tenths
\* round(match_pct, 1) then differs from the tie's even neighbour.
MatchFloatOff == (<<23, 80>> :> -1) @@ (<<49, 80>> :> 1) @@ (<<51, 80>> :> -1)

\* round(match_pct, 1), in tenths, for match_pct = num / den.
MatchTenths(matched, required, num, den) ==
    RoundHalfEven(10 * num, den)
    + (IF <<matched, required>> \in DOMAIN MatchFloatOff
       THEN MatchFloatOff[<<matched, required>>] ELSE 0)

calculate_skill_gap(required_skills, candidate_skills) ==
    LET req_normalized == Normalize(required_skills)
        cand_normalized == Normalize(candidate_skills)
        matched == req_normalized \cap cand_normalized
        missing == req_normalized \ cand_normalized
        guarded == SkillGuard(req_normalized)
        num == IF guarded THEN Cardinality(matched) * 100 ELSE 100
        den == IF guarded THEN Cardinality(req_normalized) ELSE 1
    IN  IF den = 0 THEN ZeroDivisionError
        ELSE [required_skills |-> required_skills,
              candidate_skills |-> candidate_skills,
              matched_skills |-> matched,
              missing_skills |-> missing,
              match_percentage |->
                  MatchTenths(Cardinality(matched), Cardinality(req_normalized),
                              num, den),
              gap_severity |-> Severity(num, den)]

\* j.get("duration_months", 0)
Duration(j) ==
    IF "duration_months" \in DOMAIN j THEN j.duration_months ELSE 0

RECURSIVE SumDurations(_)
SumDurations(job_history) ==
    IF job_history = <<>> THEN 0
    ELSE Duration(Head(job_history)) + SumDurations(Tail(job_history))

\* Mutant of RetentionBand: the lowest band starts at 18 months.
RetentionBandShifted(total, n) ==
    IF total >= 36 * n THEN <<"low", 15>>
    ELSE IF total >= 24 * n THEN <<"medium", 40>>
    ELSE IF total >= 18 * n THEN <<"medium", 60>>
    ELSE <<"high", 85>>

\* The risk bands on avg_tenure = total / n.
RetentionBand(total, n) ==
    IF total >= 36 * n THEN <<"low", 15>>
    ELSE IF total >= 24 * n THEN <<"medium", 40>>
    ELSE IF total >= 12 * n THEN <<"medium", 60>>
    ELSE <<"high", 85>>

assess_retention_risk(job_history) ==
    IF job_history = <<>>
    THEN [avg_tenure_months |-> 0, job_count |-> 0, is_job_hopper |-> FALSE,
          risk_level |-> "unknown", risk_score |-> 50]
    ELSE LET total == SumDurations(job_history)
             n == Len(job_history)
             band == RetentionBand(total, n)
         IN  [avg_tenure_months |-> RoundHalfEven(10 * total, n),
              job_count |-> n,
              is_job_hopper |-> total < 18 * n,
              risk_level |-> band[1],
              risk_score |-> band[2]]

\* Mutant of SalaryBand: "high" only above 30 percent.
SalaryBandExclusive(candidate_ask, market_average) ==
    LET num == (candidate_ask - market_average) * 100
    IN  IF num > 30 * market_average THEN <<"high", TRUE>>
        ELSE IF num >= 15 * market_average THEN <<"medium", FALSE>>
        ELSE <<"low", FALSE>>

\* The bands on overage_pct = num / market_average; the two lowest differ
\* in the recommendation text alone.
SalaryBand(candidate_ask, market_average) ==
    LET num == (candidate_ask - market_average) * 100
    IN  IF num >= 30 * market_average THEN <<"high", TRUE>>
        ELSE IF num >= 15 * market_average THEN <<"medium", FALSE>>
        ELSE IF num >= -10 * market_average THEN <<"low", FALSE>>
        ELSE <<"low", FALSE>>

assess_salary_risk(candidate_ask, market_average) ==
    IF market_average <= 0
    THEN [candidate_ask |-> candidate_ask, market_average |-> 0,
          overage_pct |-> 0, risk_level |-> "unknown", alert |-> FALSE]
    ELSE LET band == SalaryBand(candidate_ask, market_average)
         IN  [candidate_ask |-> candidate_ask,
              market_average |-> market_average,
              overage_pct |->
                  RoundHalfEven((candidate_ask - market_average) * 1000,
                                market_average),
              risk_level |-> band[1],
              alert |-> band[2]]

red_flag_words ==
    <<"i don't", "i won't", "impossible", "blame", "they failed",
      "management is bad", "not my job", "i quit", "just a job">>

positive_words ==
    <<"team", "collaborate", "learn", "grow", "ownership", "initiative",
      "achieve", "improve", "impact", "contribute", "passionate">>

\* `w in all_text`
Contains(text, w) ==
    \E i \in 1..(Len(text) - Len(w) + 1) : SubSeq(text, i, i + Len(w) - 1) = w

\* " ".join(answers)
RECURSIVE Join(_)
Join(answers) ==
    IF answers = <<>> THEN ""
    ELSE IF Len(answers) = 1 THEN answers[1]
    ELSE answers[1] \o " " \o Join(Tail(answers))

\* Mutant of ToneScore: neither the bonus cap nor the final clamp.
ToneScoreUnclamped(positives, flags) == 50 + positives * 5 - flags * 10

\* Mutant of ToneScore: the positive bonus is not capped.
ToneScoreUncapped(positives, flags) ==
    Max(0, Min(100, 50 + positives * 5 - Min(flags * 10, 40)))

ToneScore(positives, flags) ==
    Max(0, Min(100, 50 + Min(positives * 5, 40) - Min(flags * 10, 40)))

ToneLevel(tone_score) ==
    IF tone_score >= 75 THEN "low"
    ELSE IF tone_score >= 50 THEN "medium"
    ELSE "high"

assess_cultural_risk(answers) ==
    IF answers = <<>>
    THEN [tone_score |-> 50, risk_level |-> "unknown", red_flags |-> <<>>,
          positive_signals |-> <<>>]
    ELSE LET all_text == Lower(Join(answers))
             red_flags == SelectSeq(red_flag_words,
                                    LAMBDA w : Contains(all_text, w))
             positive_signals == SelectSeq(positive_words,
                                           LAMBDA w : Contains(all_text, w))
             tone_score == ToneScore(Len(positive_signals), Len(red_flags))
         IN  [tone_score |-> tone_score,
              risk_level |-> ToneLevel(tone_score),
              red_flags |-> red_flags,
              positive_signals |-> positive_signals]

\* risk_weights
risk_weights == [skill |-> 35, retention |-> 25, salary |-> 25, cultural |-> 15]

\* The four sub-risk scores; the skill one in tenths, as match_percentage is.
skill_risk_score(gap) == 1000 - gap.match_percentage
retention_risk_score(ret) == ret.risk_score
\* Mutant of salary_risk_score: an unknown level scored as a medium one.
salary_risk_score_unknown_medium(sal) ==
    IF sal.risk_level = "high" THEN 80
    ELSE IF sal.risk_level \in {"medium", "unknown"} THEN 40 ELSE 10

salary_risk_score(sal) ==
    IF sal.risk_level = "high" THEN 80
    ELSE IF sal.risk_level = "medium" THEN 40 ELSE 10
cultural_risk_score(cult) == 100 - cult.tone_score

\* aggregate, in thousandths.
Aggregate(gap, ret, sal, cult) ==
      skill_risk_score(gap) * risk_weights.skill
    + retention_risk_score(ret) * risk_weights.retention * 10
    + salary_risk_score(sal) * risk_weights.salary * 10
    + cultural_risk_score(cult) * risk_weights.cultural * 10

\* Color coding for the heatmap, on the aggregate in thousandths.
RiskColor(aggregate) ==
    IF aggregate < 25000 THEN "green"
    ELSE IF aggregate < 50000 THEN "yellow"
    ELSE IF aggregate < 70000 THEN "orange"
    ELSE "red"

RedFlashRequired(aggregate) == aggregate >= 70000

\* round(aggregate, 1), in tenths.  Where the sum lies exactly between two
\* tenths the double that stands for it decides, to either side.
RoundAggregate(aggregate) ==
    IF aggregate % 100 = 50
    THEN {aggregate \div 100, aggregate \div 100 + 1}
    ELSE {RoundHalfEven(aggregate, 100)}

\* ---- arguments the model draws from ----
Render(i, v) ==
    IF v = 0 THEN "sk" \o ToString(i)
    ELSE IF v = 1 THEN "SK" \o ToString(i)
    ELSE " Sk" \o ToString(i) \o " "

\* n required skills; with dup the first is listed again in another spelling.
RequiredList(n, dup) ==
    [i \in 1..n |-> Render(i, i % 3)]
    \o (IF dup /\ n > 0 THEN <<"SK1 ">> ELSE <<>>)

\* The candidate has the first k of them; with extra also one not asked for.
CandidateList(k, extra) ==
    [i \in 1..k |-> Render(i, (i + 1) % 3)]
    \o (IF extra THEN <<"Rust">> ELSE <<>>)

JobEntries ==
    {[title |-> "engineer"]}
    \cup {[title |-> "engineer", duration_months |-> d] :
              d \in {6, 12, 18, 24, 36}}
Histories(max) == UNION {[1..n -> JobEntries] : n \in 0..max}

SentinelAsks ==
    {0, 50000, 89999, 95000, 114999, 115000, 129999, 130000, 200000}
SentinelMarkets == {-1, 0, 15000, 100000}

AnswerSamples ==
    {"", "I love my TEAM", "Steamrolled", "just a", "job", "I QUIT",
     "learn grow improve impact contribute",
     "Team collaborate learn grow ownership initiative achieve improve impact contribute passionate",
     "I don't, I won't: impossible. Blame: they failed; management is bad; not my job; I quit; just a job"}
NoAnswers == [given |-> FALSE, list |-> <<>>]
AnswerLists(max) ==
    {NoAnswers}
    \cup {[given |-> TRUE, list |-> l] :
              l \in UNION {[1..n -> AnswerSamples] : n \in 0..max}}

RiskInput(n, k, dup, extra, history, ask, market, answers) ==
    [required_skills |-> RequiredList(n, dup),
     candidate_skills |-> CandidateList(k, extra),
     job_history |-> history,
     candidate_ask |-> ask,
     market_average |-> market,
     answers |-> answers]

\* One argument varied over its whole range at a time, and a small product.
RiskInputs ==
    {RiskInput(p[1], p[2], FALSE, FALSE, <<>>, 0, 0, NoAnswers) :
         p \in {q \in (0..MaxSkills) \X (0..MaxSkills) : q[2] <= q[1]}}
    \cup {RiskInput(2, 1, FALSE, FALSE, h, 0, 0, NoAnswers) :
              h \in Histories(MaxJobs)}
    \cup {RiskInput(2, 1, FALSE, FALSE, <<>>, ask, market, NoAnswers) :
              ask \in SentinelAsks, market \in SentinelMarkets}
    \cup {RiskInput(2, 1, FALSE, FALSE, <<>>, 0, 0, a) :
              a \in AnswerLists(MaxAnswers)}
    \cup {RiskInput(n, k, dup, extra, h, 130000, market, a) :
              n \in 0..MaxRequired, k \in 0..MaxRequired,
              dup \in BOOLEAN, extra \in BOOLEAN,
              h \in {<<>>, <<[title |-> "engineer", duration_months |-> 6]>>,
                     <<[title |-> "engineer", duration_months |-> 36]>>},
              market \in {0, 100000},
              a \in {NoAnswers,
                     [given |-> TRUE, list |-> <<"I QUIT">>],
                     [given |-> TRUE,
                      list |-> <<"learn grow improve impact contribute">>]}}

RiskIdle ==
    /\ rm_in = None
    /\ rm_pc = "idle"
    /\ skill_gap = None
    /\ retention = None
    /\ rm_salary = None
    /\ cultural = None
    /\ matrix = None

\* ---- build_risk_matrix, call by call ----
CalcSkillGap ==
    /\ rm_pc = "skill_gap"
    /\ skill_gap' = calculate_skill_gap(rm_in.required_skills,
                                        rm_in.candidate_skills)
    /\ rm_pc' = IF skill_gap' = ZeroDivisionError THEN "raised" ELSE "retention"
    /\ UNCHANGED <<rm_in, retention, rm_salary, cultural, matrix>>

AssessRetention ==
    /\ rm_pc = "retention"
    /\ retention' = assess_retention_risk(rm_in.job_history)
    /\ rm_pc' = "salary"
    /\ UNCHANGED <<rm_in, skill_gap, rm_salary, cultural, matrix>>

AssessSalary ==
    /\ rm_pc = "salary"
    /\ rm_salary' = assess_salary_risk(rm_in.candidate_ask,
                                    rm_in.market_average)
    /\ rm_pc' = "cultural"
    /\ UNCHANGED <<rm_in, skill_gap, retention, cultural, matrix>>

\* assess_cultural_risk(answers or [])
AssessCultural ==
    /\ rm_pc = "cultural"
    /\ cultural' = assess_cultural_risk(rm_in.answers.list)
    /\ rm_pc' = "aggregate"
    /\ UNCHANGED <<rm_in, skill_gap, retention, rm_salary, matrix>>

\* The weighted aggregate, the color, the red flash and the RiskMatrix.
BuildMatrix ==
    /\ rm_pc = "aggregate"
    /\ LET aggregate == Aggregate(skill_gap, retention, rm_salary, cultural)
       IN  \E rounded \in RoundAggregate(aggregate) :
              matrix' = [skill_gap |-> skill_gap,
                         retention |-> retention,
                         salary |-> rm_salary,
                         cultural |-> cultural,
                         aggregate |-> aggregate,
                         aggregate_risk_score |-> rounded,
                         risk_color |-> RiskColor(aggregate),
                         red_flash_required |-> RedFlashRequired(aggregate)]
    /\ rm_pc' = "returned"
    /\ UNCHANGED <<rm_in, skill_gap, retention, rm_salary, cultural>>

(***************************************************************************)
(* Memory manager: should_compact and compact_session                      *)
(***************************************************************************)
\* The fallback keeps this many characters of the conversation.
TruncateAt == 500
\* should_compact's default threshold_tokens.
DefaultThreshold == 3000

\* len(text.split()): the maximal runs of non-whitespace characters.
WordCount(text) ==
    Cardinality({i \in 1..Len(text) :
                    /\ Char(text, i) \notin Whitespace
                    /\ i = 1 \/ Char(text, i - 1) \in Whitespace})

\* Mutant of EstimateReaches: the estimate must exceed the threshold.
EstimateExceeds(words, threshold_tokens) == 13 * words > 10 * threshold_tokens

\* words * 1.3 >= threshold_tokens
EstimateReaches(words, threshold_tokens) == 13 * words >= 10 * threshold_tokens

should_compact(conversation_text, threshold_tokens) ==
    EstimateReaches(WordCount(conversation_text), threshold_tokens)

\* conversation_text[:500] + "..." if len(conversation_text) > 500
\* else conversation_text
NaiveTruncation(conversation_text) ==
    IF Len(conversation_text) > TruncateAt
    THEN SubSeq(conversation_text, 1, TruncateAt) \o "..."
    ELSE conversation_text

\* JSON values the response can carry under "summary".
JStr(s) == [type |-> "str", val |-> s]
JNull == [type |-> "null"]

\* What model.generate_content can do: raise; answer text that json.loads
\* rejects; a response whose .text raises; JSON that is not an object; an
\* object without the two keys; an object whose summary is null; the object
\* asked for.
OracleResponses ==
    {[kind |-> "error"], [kind |-> "unparsable"], [kind |-> "blocked"],
     [kind |-> "not_object"],
     [kind |-> "object", fields |-> {}],
     [kind |-> "object", fields |-> {"summary", "key_facts"},
      summary |-> JNull, key_facts |-> <<>>],
     [kind |-> "object", fields |-> {"summary", "key_facts"},
      summary |-> JStr("Ahmed scored 82; advance to interview"),
      key_facts |-> <<"score 82", "decision advance", "ask 13000 SAR">>]}

\* The body of the try block: json.loads and the two data.get calls.
ParseRaises(response) == response.kind \in {"unparsable", "blocked", "not_object"}

Parsed(response, conversation_text) ==
    IF ParseRaises(response)
    THEN [summary |-> JStr(NaiveTruncation(conversation_text)),
          key_facts |-> <<>>]
    ELSE [summary |-> IF "summary" \in response.fields THEN response.summary
                      ELSE JStr("Session context preserved."),
          key_facts |-> IF "key_facts" \in response.fields
                        THEN response.key_facts ELSE <<>>]

RECURSIVE SumWords(_)
SumWords(key_facts) ==
    IF key_facts = <<>> THEN 0
    ELSE WordCount(Head(key_facts)) + SumWords(Tail(key_facts))

\* round(before / max(after, 1), 2), in hundredths; a quotient halfway
\* between two hundredths goes where its double lies, to either side.
CompressionRatio(before, after) ==
    LET den == Max(after, 1)
    IN  IF (200 * before) % den = 0 /\ ((200 * before) \div den) % 2 = 1
        THEN {(100 * before) \div den, (100 * before) \div den + 1}
        ELSE {RoundHalfEven(100 * before, den)}

\* n words, one space after each.
RECURSIVE Repeat(_, _)
Repeat(s, n) ==
    IF n = 0 THEN ""
    ELSE IF n = 1 THEN s
    ELSE LET half == Repeat(s, n \div 2)
         IN  half \o half \o (IF n % 2 = 1 THEN s ELSE "")

WordCounts == {0, 1, 9, 10, 11, 99, 100, 101, 2000, 2307, 2308, 2400}
Conversations ==
    {Repeat("word ", n) : n \in WordCounts}
    \cup {"  two\twords\n", " ", "Ahmed: hello\r\nNexus:  hi there"}
    \cup {Repeat("a", TruncateAt - 1), Repeat("a", TruncateAt),
          Repeat("a", TruncateAt + 1)}
Thresholds == {DefaultThreshold, 13, 130}

MemIdle ==
    /\ mm_in = None
    /\ mm_pc = "idle"
    /\ mm_should = None
    /\ mm_response = None
    /\ mm_parsed = None
    /\ mm_result = None

\* should_compact(conversation_text, threshold_tokens)
ShouldCompact ==
    /\ mm_pc = "should_compact"
    /\ mm_should' = [value |-> should_compact(mm_in.conversation_text,
                                              mm_in.threshold_tokens)]
    /\ mm_pc' = "generate"
    /\ UNCHANGED <<mm_in, mm_response, mm_parsed, mm_result>>

\* compact_session up to response = model.generate_content(prompt), which
\* stands outside the try block.
Generate ==
    /\ mm_pc = "generate"
    /\ \E response \in OracleResponses :
          /\ mm_response' = response
          /\ mm_pc' = IF response.kind = "error" THEN "raised" ELSE "parse"
    /\ UNCHANGED <<mm_in, mm_should, mm_parsed, mm_result>>

\* The try / except Exception block.
Parse ==
    /\ mm_pc = "parse"
    /\ mm_parsed' = Parsed(mm_response, mm_in.conversation_text)
    /\ mm_pc' = "estimate"
    /\ UNCHANGED <<mm_in, mm_should, mm_response, mm_result>>

\* token_estimate_after, compression_ratio and the MemorySnapshot;
\* summary.split() raises when summary is not a string.
Snapshot ==
    /\ mm_pc = "estimate"
    /\ IF mm_parsed.summary.type # "str"
       THEN /\ mm_pc' = "raised"
            /\ UNCHANGED mm_result
       ELSE LET before == WordCount(mm_in.conversation_text)
                after == WordCount(mm_parsed.summary.val)
                             + SumWords(mm_parsed.key_facts)
            IN  /\ \E ratio \in CompressionRatio(before, after) :
                      mm_result' = [summary |-> mm_parsed.summary.val,
                                    key_facts |-> mm_parsed.key_facts,
                                    token_count_before |-> before,
                                    token_count_after |-> after,
                                    compression_ratio |-> ratio]
                /\ mm_pc' = "returned"
    /\ UNCHANGED <<mm_in, mm_should, mm_response, mm_parsed>>

(***************************************************************************)
(* Routes: analyze_candidate, evaluate_screening, process_cv, upload_cv    *)
(***************************************************************************)
\* An exception object, and fastapi's HTTPException.
Raised(type, detail) == [kind |-> "raised", type |-> type, detail |-> detail]
HTTPException(status_code, detail) ==
    [kind |-> "raised", type |-> "HTTPException", status_code |-> status_code,
     detail |-> detail]
Returns(value) == [kind |-> "returned", value |-> value]

\* `except Exception as e: raise HTTPException(500, f"...: {str(e)}")`.
\* HTTPException is itself an Exception, so one raised in the try block is
\* replaced as well.
RouteExcept(prefix, e) == HTTPException(500, <<prefix, e.detail>>)

\* What a single-row select of supabase_handler can do: return the row,
\* return no data, or raise.
DbReads == {"found", "none", "raises"}
\* What an insert can do.
DbWrites == {"ok", "raises"}

\* total_score values evaluate_answers may return with validated = True.
ApiScores == {-5, 0, 50, 59, 60, 69, 70, 84, 85, 100, 150}

\* The fields of EvaluationResult evaluate_screening reads.
Evaluations ==
    {[total_score |-> DegradedResult.total_score,
      recommendation |-> DegradedResult.recommendation,
      validated |-> DegradedResult.validated]}
    \cup {[total_score |-> t, recommendation |-> Recommendation(t),
           validated |-> TRUE] : t \in ApiScores}

\* The dict evaluate_screening returns.
ScreeningResponse(eval_result, pdf_available) ==
    [score |-> eval_result.total_score,
     recommendation |-> eval_result.recommendation,
     pdf_guide_available |-> pdf_available,
     auto_reminder_set |-> eval_result.total_score >= 85,
     red_flash |-> \/ eval_result.total_score < 60
                   \/ (eval_result.total_score < 70 /\ ~eval_result.validated)]

\* Mutant of ReminderDue: the reminder is for scores above 85.
ReminderDueAbove(eval_result) == eval_result.total_score > 85

\* `if eval_result.total_score >= 85` before schedule_reminder.
ReminderDue(eval_result) == eval_result.total_score >= 85

\* What the VirusTotal lookup can do: the request raises, the service
\* answers 404 (hash unknown), another non-200 status, JSON without the
\* analysis attributes, or a report.
ScanAnswers ==
    {[kind |-> "neterr"], [kind |-> "status", code |-> 404],
     [kind |-> "status", code |-> 500], [kind |-> "malformed"]}
    \cup {[kind |-> "report", malicious |-> m, suspicious |-> s,
           harmless |-> 60] : m \in {0, 2}, s \in {0, 1}}

SecurityScanResult(safe, malicious_count, suspicious_count, total_engines) ==
    [safe |-> safe, malicious_count |-> malicious_count,
     suspicious_count |-> suspicious_count, total_engines |-> total_engines]

\* scan_file: the hash, then scan_file_hash.
scan_file(answer) ==
    IF answer.kind = "neterr" THEN Raised("ConnectError", "unreachable")
    ELSE IF answer.kind = "status" /\ answer.code = 404
    THEN Returns(SecurityScanResult(TRUE, 0, 0, 0))
    ELSE IF answer.kind = "status"
    THEN Raised("Exception", "VirusTotal API error")
    ELSE IF answer.kind = "malformed" THEN Raised("KeyError", "data")
    ELSE Returns(SecurityScanResult(
             answer.malicious = 0 /\ answer.suspicious = 0,
             answer.malicious, answer.suspicious,
             answer.malicious + answer.suspicious + answer.harmless))

\* `if not scan_result.safe` of process_cv and upload_cv.
ScanPasses(scan_result) == scan_result.safe

Operations ==
    {"analyze_candidate", "evaluate_screening", "process_cv", "upload_cv"}
\* file.filename.endswith(('.pdf', '.docx', '.doc'))
Requests == [op : Operations, accepted_suffix : BOOLEAN]

ApiIdle ==
    /\ api_in = None
    /\ api_read = "unread"
    /\ api_pc = "idle"
    /\ api_log = <<>>
    /\ api_eval = None
    /\ api_scan = None
    /\ api_pdf = FALSE
    /\ api_out = None

\* ---- analyze_candidate (POST /api/analyze) ----
\* get_candidate and the `if not candidate` test, inside the route's try.
AnalyzeGetCandidate ==
    /\ api_pc = "start" /\ api_in.op = "analyze_candidate"
    /\ api_log' = Append(api_log, "get_candidate")
    /\ \E read \in DbReads :
          /\ api_read' = read
          /\ IF read = "found"
             THEN /\ api_pc' = "run_analysis"
                  /\ UNCHANGED api_out
             ELSE /\ api_pc' = "done"
                  /\ api_out' =
                         RouteExcept("Analysis failed",
                             IF read = "none"
                             THEN HTTPException(404, "Candidate not found")
                             ELSE Raised("APIError", "select failed"))
    /\ UNCHANGED <<api_in, api_eval, api_scan, api_pdf>>

\* orchestrator.run_analysis returns the report or raises.
AnalyzeRun ==
    /\ api_pc = "run_analysis"
    /\ api_log' = Append(api_log, "run_analysis")
    /\ api_pc' = "done"
    /\ \E raised \in BOOLEAN :
          api_out' = IF raised
                     THEN RouteExcept("Analysis failed",
                                      Raised("Exception", "run_analysis"))
                     ELSE Returns("report")
    /\ UNCHANGED <<api_in, api_read, api_eval, api_scan, api_pdf>>

\* ---- evaluate_screening, under the route POST /api/score_candidate ----
ScreenGetSession ==
    /\ api_pc = "start" /\ api_in.op = "evaluate_screening"
    /\ api_log' = Append(api_log, "get_screening_session")
    /\ \E read \in DbReads :
          /\ api_read' = read
          /\ IF read = "found"
             THEN /\ api_pc' = "evaluate_answers"
                  /\ UNCHANGED api_out
             ELSE /\ api_pc' = "done"
                  /\ api_out' =
                         RouteExcept("Scoring failed",
                             IF read = "none"
                             THEN Raised("Exception", "Session not found")
                             ELSE Raised("APIError", "select failed"))
    /\ UNCHANGED <<api_in, api_eval, api_scan, api_pdf>>

\* asyncio.run(evaluate_answers(...)): returns in every case.
ScreenEvaluate ==
    /\ api_pc = "evaluate_answers"
    /\ api_log' = Append(api_log, "evaluate_answers")
    /\ api_eval' \in Evaluations
    /\ api_pc' = "get_candidate"
    /\ UNCHANGED <<api_in, api_read, api_scan, api_pdf, api_out>>

\* candidate = get_candidate(candidate_id) or {}
ScreenGetCandidate ==
    /\ api_pc = "get_candidate"
    /\ api_log' = Append(api_log, "get_candidate")
    /\ \E read \in DbReads :
          /\ api_read' = read
          /\ IF read = "raises"
             THEN /\ api_pc' = "done"
                  /\ api_out' = RouteExcept("Scoring failed",
                                            Raised("APIError", "select failed"))
             ELSE /\ api_pc' = "pdf"
                  /\ UNCHANGED api_out
    /\ UNCHANGED <<api_in, api_eval, api_scan, api_pdf>>

\* generate_interview_guide inside its own try / except.
ScreenPdf ==
    /\ api_pc = "pdf"
    /\ api_log' = Append(api_log, "generate_interview_guide")
    /\ api_pdf' \in BOOLEAN
    /\ api_pc' = "save_score"
    /\ UNCHANGED <<api_in, api_read, api_eval, api_scan, api_out>>

ScreenSaveScore ==
    /\ api_pc = "save_score"
    /\ api_log' = Append(api_log, "save_score")
    /\ \E write \in DbWrites :
          IF write = "raises"
          THEN /\ api_pc' = "done"
               /\ api_out' = RouteExcept("Scoring failed",
                                         Raised("APIError", "insert failed"))
          ELSE /\ api_pc' = "reminder"
               /\ UNCHANGED api_out
    /\ UNCHANGED <<api_in, api_read, api_eval, api_scan, api_pdf>>

\* The auto-reminder and the return.
ScreenReminder ==
    /\ api_pc = "reminder"
    /\ api_pc' = "done"
    /\ IF ReminderDue(api_eval)
       THEN /\ api_log' = Append(api_log, "schedule_reminder")
            /\ \E write \in DbWrites :
                  api_out' =
                      IF write = "raises"
                      THEN RouteExcept("Scoring failed",
                                       Raised("APIError", "insert failed"))
                      ELSE Returns(ScreeningResponse(api_eval, api_pdf))
       ELSE /\ UNCHANGED api_log
            /\ api_out' = Returns(ScreeningResponse(api_eval, api_pdf))
    /\ UNCHANGED <<api_in, api_read, api_eval, api_scan, api_pdf>>

\* ---- process_cv ----
CvScan ==
    /\ api_pc = "start" /\ api_in.op = "process_cv"
    /\ api_log' = Append(api_log, "scan_file")
    /\ \E answer \in ScanAnswers :
          LET scanned == scan_file(answer)
          IN  IF scanned.kind = "raised"
              THEN /\ api_pc' = "done"
                   /\ api_out' = scanned
                   /\ UNCHANGED api_scan
              ELSE /\ api_scan' = scanned.value
                   /\ IF ScanPasses(scanned.value)
                      THEN /\ api_pc' = "convert_to_text"
                           /\ UNCHANGED api_out
                      ELSE /\ api_pc' = "done"
                           /\ api_out' = Raised("Exception", "SECURITY ALERT")
    /\ UNCHANGED <<api_in, api_read, api_eval, api_pdf>>

\* convert_to_text and the length test on raw_text.
CvConvert ==
    /\ api_pc = "convert_to_text"
    /\ api_log' = Append(api_log, "convert_to_text")
    /\ \E outcome \in {"raises", "too_short", "text"} :
          IF outcome = "text"
          THEN /\ api_pc' = "parse_cv_with_gemini"
               /\ UNCHANGED api_out
          ELSE /\ api_pc' = "done"
               /\ api_out' = Raised("Exception",
                                    IF outcome = "too_short"
                                    THEN "Document too short" ELSE "convert")
    /\ UNCHANGED <<api_in, api_read, api_eval, api_scan, api_pdf>>

CvParse ==
    /\ api_pc = "parse_cv_with_gemini"
    /\ api_log' = Append(api_log, "parse_cv_with_gemini")
    /\ api_pc' = "done"
    /\ \E raised \in BOOLEAN :
          api_out' = IF raised THEN Raised("Exception", "parse")
                     ELSE Returns("cv_data")
    /\ UNCHANGED <<api_in, api_read, api_eval, api_scan, api_pdf>>

\* ---- upload_cv (POST /api/upload_cv) ----
\* The suffix test, before the try block.
UploadSuffix ==
    /\ api_pc = "start" /\ api_in.op = "upload_cv"
    /\ IF api_in.accepted_suffix
       THEN /\ api_pc' = "scan_file"
            /\ UNCHANGED api_out
       ELSE /\ api_pc' = "done"
            /\ api_out' = HTTPException(400, "Only PDF and Word documents")
    /\ UNCHANGED <<api_in, api_read, api_log, api_eval, api_scan, api_pdf>>

UploadScan ==
    /\ api_pc = "scan_file"
    /\ api_log' = Append(api_log, "scan_file")
    /\ \E answer \in ScanAnswers :
          LET scanned == scan_file(answer)
          IN  IF scanned.kind = "raised"
              THEN /\ api_pc' = "done"
                   /\ api_out' = RouteExcept("CV processing failed", scanned)
                   /\ UNCHANGED api_scan
              ELSE /\ api_scan' = scanned.value
                   /\ IF ScanPasses(scanned.value)
                      THEN /\ api_pc' = "save_candidate"
                           /\ UNCHANGED api_out
                      ELSE /\ api_pc' = "done"
                           /\ api_out' =
                                  RouteExcept("CV processing failed",
                                      HTTPException(403, "SECURITY ALERT"))
    /\ UNCHANGED <<api_in, api_read, api_eval, api_pdf>>

\* The mocked cv_data, save_candidate and the return.
UploadSave ==
    /\ api_pc = "save_candidate"
    /\ api_log' = api_log \o <<"cv_data", "save_candidate">>
    /\ api_pc' = "done"
    /\ \E write \in DbWrites :
          api_out' = IF write = "raises"
                     THEN RouteExcept("CV processing failed",
                                      Raised("APIError", "upsert failed"))
                     ELSE Returns("candidate_id")
    /\ UNCHANGED <<api_in, api_read, api_eval, api_scan, api_pdf>>

(***************************************************************************)
(* Properties of run_analysis (SpecAnalysis)                               *)
(***************************************************************************)
FailedA == resp["A"] \in {"error", "garbled", "illtyped"}
FailedC == resp["C"] \in {"error", "garbled", "illtyped"}
FailedSalaryProvider == resp["adzuna"] \in {"neterr", "non200"}
Pending(w) == task[w] \notin {"done", "failed"}

\* C1: run_analysis returns a report for every combination of success and
\* failure of the sub-evaluations A, C and D; a failed sub-call shows in the
\* report as that worker's neutral fallback (for D: salary_risk "unknown")
\* and run_analysis does not raise because of it.
C1_SubFailuresAbsorbed ==
    /\ ra_pc = "raised" => resp["summary"] = "error"
    /\ ra_pc = "returned" =>
          /\ FailedA => report.worker_a = FallbackA
          /\ FailedC => report.worker_c = FallbackC
          /\ FailedSalaryProvider => report.worker_d.salary_risk = "unknown"

\* C2: the merge starts only once A, C and D have each completed with a
\* value; while one of them is pending no merge step has run and
\* run_analysis has neither returned nor failed.
C2_JoinBarrier ==
    /\ (\/ ra_pc \in {"merge", "summary", "returned"}
        \/ worker_d # None
        \/ final_decision # "none"
        \/ report # None)
          => \A w \in Workers : task[w] = "done" /\ result[w] # None
    /\ (\E w \in Workers : Pending(w)) => ra_pc \in {"start", "gather"}

C2_Witness ==
    /\ ra_pc = "summary"
    /\ AllDone
    /\ result["A"] = FallbackA
    /\ resp["marketstack"] = "ok"
    /\ final_decision # "none"

\* C3: in every report, final_decision is "advance" iff worker C's
\* overall_score >= 85 and red_flash is false, otherwise "screen" iff
\* overall_score >= 60, otherwise "reject"; with red_flash it is never
\* "advance".
C3_FinalDecision ==
    ra_pc = "returned" =>
        LET s == report.worker_c.overall_score
            f == report.red_flash
            d == report.final_decision
        IN  /\ d \in {"advance", "screen", "reject"}
            /\ d = "advance" <=> (s >= 85 /\ ~f)
            /\ d = "screen" <=> (~(s >= 85 /\ ~f) /\ s >= 60)
            /\ d = "reject" <=> (~(s >= 85 /\ ~f) /\ s < 60)
            /\ f => d # "advance"

C3_Witness ==
    /\ ra_pc = "returned"
    /\ report.red_flash
    /\ report.worker_c.overall_score = 90
    /\ report.final_decision = "screen"

\* C4: the composite risk score is 40 for worker C's risk_level "high" plus
\* 35 for worker D's salary_risk "high" plus 25 for worker A's domain_alert,
\* red_flash is true iff the composite is >= 70, and all three together
\* give 100 with red_flash.
C4_CompositeRisk ==
    ra_pc \in {"summary", "returned"} =>
        LET hc == result["C"].risk_level = "high"
            hd == worker_d.salary_risk = "high"
            ha == result["A"].domain_alert
        IN  /\ hc /\ hd /\ ha => risk_score = 100
            /\ hc /\ hd /\ ~ha => risk_score = 75
            /\ hc /\ ~hd /\ ha => risk_score = 65
            /\ hc /\ ~hd /\ ~ha => risk_score = 40
            /\ ~hc /\ hd /\ ha => risk_score = 60
            /\ ~hc /\ hd /\ ~ha => risk_score = 35
            /\ ~hc /\ ~hd /\ ha => risk_score = 25
            /\ ~hc /\ ~hd /\ ~ha => risk_score = 0
            /\ red_flash <=> risk_score >= 70
            /\ hc /\ hd /\ ha => red_flash

C4_Witness ==
    /\ ra_pc = "returned"
    /\ result["C"].risk_level = "high"
    /\ worker_d.salary_risk = "high"
    /\ result["A"].domain_alert
    /\ risk_score = 100
    /\ report.red_flash

(***************************************************************************)
(* Properties of evaluate_answers (SpecEvaluate)                           *)
(***************************************************************************)
Unparsed(i) == requests[i].kind \in {"error", "garbled"}

\* C5: Scoring -> Validating -> Done: pass 2 is requested only after pass 1
\* returned a parsed result, each pass is requested at most once, and a
\* failing pass ends in the degraded result with no further request.
C5_SequentialPasses ==
    /\ Len(requests) <= 2
    /\ \A i \in DOMAIN requests :
          requests[i].pass = (IF i = 1 THEN "pass1" ELSE "pass2")
    /\ ev_pc = "scoring" <=> requests = <<>>
    /\ ev_pc = "validating" =>
          Len(requests) = 1 /\ ~Unparsed(1) /\ eval_data # None
    /\ Len(requests) = 2 => ~Unparsed(1) /\ eval_data # None
    /\ ev_pc = "done" => Len(requests) = 2 /\ ~Unparsed(2)
    /\ \A i \in DOMAIN requests :
          Unparsed(i) => ev_pc = "degraded" /\ Len(requests) = i

C5_Witness ==
    /\ ev_pc = "degraded"
    /\ Len(requests) = 2
    /\ requests[1].kind = "ok"
    /\ requests[2].kind = "error"

\* C6: when pass 1 or pass 2 fails, evaluate_answers returns exactly the
\* fixed degraded record (50, no breakdown, the manual-review weakness,
\* 50/50/50, "screen", validated false); it always returns a result, and
\* validated is false only in that record.
C6_DegradedRecord ==
    LET fixed == [total_score |-> 50,
                  score_breakdown |-> <<>>,
                  weaknesses |-> <<"Evaluation error - manual review required">>,
                  cultural_fit_score |-> 50,
                  technical_score |-> 50,
                  behavioral_score |-> 50,
                  recommendation |-> "screen",
                  validated |-> FALSE]
    IN  /\ ev_pc \in {"done", "degraded"} <=> ev_result # None
        /\ (\E i \in DOMAIN requests : Unparsed(i)) => ev_result = fixed
        /\ ev_pc = "degraded" => ev_result = fixed
        /\ (ev_result # None /\ ~ev_result.validated) => ev_result = fixed

C6_Witness ==
    /\ ev_pc = "degraded"
    /\ requests[1].kind = "garbled"
    /\ ev_result # None
    /\ ~ev_result.validated

\* C7: every EvaluationResult has total_score in 0..100, whatever the
\* oracle returns in pass 1 and pass 2.
C7_TotalInRange ==
    ev_result # None => ev_result.total_score \in 0..100

\* C8: in every result with validated = true, recommendation is "advance"
\* iff total_score >= 85, "screen" iff 60 <= total_score <= 84, "reject" iff
\* total_score < 60.
C8_Recommendation ==
    (ev_result # None /\ ev_result.validated) =>
        LET t == ev_result.total_score
            r == ev_result.recommendation
        IN  /\ r = "advance" <=> t >= 85
            /\ r = "screen" <=> (60 <= t /\ t <= 84)
            /\ r = "reject" <=> t < 60

C8_Witness ==
    /\ ev_pc = "done"
    /\ ev_result.validated
    /\ ev_result.total_score = 85
    /\ ev_result.recommendation = "advance"

\* C9: when pass 2 returns validated_score v, total_score is v and the
\* recommendation follows from v, also when v differs from the normalized
\* score; when pass 2 leaves validated_score out, total_score is the
\* normalized score.
C9_ValidatedAuthoritative ==
    ev_pc = "done" =>
        LET p2 == requests[2]
            v == p2.value
            r == ev_result.recommendation
        IN  /\ p2.kind = "int" =>
                  /\ ev_result.total_score = v
                  /\ v >= 85 => r = "advance"
                  /\ (60 <= v /\ v < 85) => r = "screen"
                  /\ v < 60 => r = "reject"
            /\ p2.kind = "omitted" => ev_result.total_score = normalized_score

C9_Witness ==
    /\ ev_pc = "done"
    /\ requests[2].kind = "int"
    /\ requests[2].value = 59
    /\ normalized_score = 100
    /\ ev_result.total_score = 59
    /\ ev_result.recommendation = "reject"

\* C10 as stated: the normalized score is round(sum / (n*20) * 100), 0 for
\* n = 0.
C10_Rounded ==
    eval_data # None =>
        LET n == Len(eval_data.scores)
            raw == SumSeq(eval_data.scores)
        IN  normalized_score =
                (IF n = 0 THEN 0 ELSE (200 * raw + 20 * n) \div (40 * n))

\* C10 as amended: the normalized score is int(sum / max(n*20, 1) * 100),
\* the quotient truncated toward zero: never beyond the exact quotient, the
\* truncation itself when the quotient is no integer, and the quotient or
\* one short of it when it is an integer; 0 for n = 0; n questions scored
\* 20 each give 100 and, with validated_score left out, total_score 100 and
\* "advance".
C10_Truncated ==
    eval_data # None =>
        LET scores == eval_data.scores
            n == Len(scores)
            raw == SumSeq(scores)
            m == 20 * n
            a == IF raw < 0 THEN -raw ELSE raw
            g == IF normalized_score < 0 THEN -normalized_score
                 ELSE normalized_score
        IN  /\ n = 0 => normalized_score = 0
            /\ n > 0 =>
                  /\ raw >= 0 => normalized_score >= 0
                  /\ raw <= 0 => normalized_score <= 0
                  /\ g * m <= 100 * a
                  /\ IF (100 * a) % m = 0
                     THEN (g + 1) * m >= 100 * a
                     ELSE (g + 1) * m > 100 * a
            /\ (n > 0 /\ \A i \in 1..n : scores[i] = 20) =>
                  /\ normalized_score = 100
                  /\ (ev_pc = "done" /\ requests[2].kind = "omitted") =>
                        /\ ev_result.total_score = 100
                        /\ ev_result.recommendation = "advance"

C10_Witness ==
    /\ ev_pc = "validating"
    /\ eval_data.scores = <<7, 0, 0>>
    /\ normalized_score = 11

(***************************************************************************)
(* Properties of build_risk_matrix (SpecRisk)                              *)
(***************************************************************************)
Returned == rm_pc = "returned"

\* C11: the weights are 35/25/25/15 and sum to 100, and in every returned
\* RiskMatrix each of the four sub-risk scores and aggregate_risk_score
\* lie in [0,100] (the skill score and the aggregate are held in tenths).
C11_ScoresInRange ==
    /\ risk_weights = [skill |-> 35, retention |-> 25, salary |-> 25,
                       cultural |-> 15]
    /\ risk_weights.skill + risk_weights.retention + risk_weights.salary
           + risk_weights.cultural = 100
    /\ Returned =>
           /\ skill_risk_score(matrix.skill_gap) \in 0..1000
           /\ retention_risk_score(matrix.retention) \in 0..100
           /\ salary_risk_score(matrix.salary) \in 0..100
           /\ cultural_risk_score(matrix.cultural) \in 0..100
           /\ matrix.aggregate_risk_score \in 0..1000

\* A matrix returned for empty skill lists, an empty job history, no market
\* average and no answers.
C11_Witness ==
    /\ Returned
    /\ rm_in.required_skills = <<>>
    /\ rm_in.candidate_skills = <<>>
    /\ rm_in.job_history = <<>>
    /\ rm_in.market_average <= 0
    /\ ~rm_in.answers.given
    /\ matrix.aggregate_risk_score = 225

\* C12: in every returned RiskMatrix risk_color is green, yellow, orange or
\* red according to whether the returned aggregate_risk_score is < 25, < 50,
\* < 70 or >= 70, and red_flash_required holds iff the returned
\* aggregate_risk_score is >= 70, equivalently iff risk_color is "red".
C12_ColorOfReturnedScore ==
    Returned =>
        /\ matrix.risk_color =
               (IF matrix.aggregate_risk_score < 250 THEN "green"
                ELSE IF matrix.aggregate_risk_score < 500 THEN "yellow"
                ELSE IF matrix.aggregate_risk_score < 700 THEN "orange"
                ELSE "red")
        /\ matrix.red_flash_required = (matrix.aggregate_risk_score >= 700)
        /\ matrix.red_flash_required = (matrix.risk_color = "red")

\* The skill lists of rm_in, read back: how many distinct skills are asked
\* for, how many of them the candidate lists, and the normalized names.
RequiredCount ==
    LET l == rm_in.required_skills
    IN  IF l # <<>> /\ l[Len(l)] = "SK1 " THEN Len(l) - 1 ELSE Len(l)
CandidateCount ==
    LET l == rm_in.candidate_skills
    IN  IF l # <<>> /\ l[Len(l)] = "Rust" THEN Len(l) - 1 ELSE Len(l)
ExpectedMatched ==
    {"sk" \o ToString(i) : i \in 1..Min(RequiredCount, CandidateCount)}
SkillGapDone == rm_pc \notin {"idle", "skill_gap", "raised"}

\* C13: skills are compared after trimming and lowercasing; match_percentage
\* is |required /\ candidate| / |required| * 100 over the normalized
\* required set, and 100 when the required list is empty; gap_severity is
\* low / medium / high / critical for a reported match percentage
\* >= 85 / >= 65 / >= 45 / below 45.
C13_SeverityOfReportedMatch ==
    SkillGapDone =>
        /\ skill_gap.matched_skills = ExpectedMatched
        /\ RequiredCount = 0 => skill_gap.match_percentage = 1000
        /\ RequiredCount > 0 =>
               2 * Abs(skill_gap.match_percentage * RequiredCount
                       - 1000 * Cardinality(ExpectedMatched)) <= RequiredCount
        /\ skill_gap.gap_severity =
               (IF skill_gap.match_percentage >= 850 THEN "low"
                ELSE IF skill_gap.match_percentage >= 650 THEN "medium"
                ELSE IF skill_gap.match_percentage >= 450 THEN "high"
                ELSE "critical")

RetentionDone == rm_pc \in {"salary", "cultural", "aggregate", "returned"}
TotalMonths == SumDurations(rm_in.job_history)
JobCount == Len(rm_in.job_history)

\* C14: an empty job history gives average tenure 0, "unknown", score 50 and
\* no job hopper; otherwise, with avg the mean of duration_months,
\* is_job_hopper iff avg < 18 and (risk_level, risk_score) is (low, 15) for
\* avg >= 36, (medium, 40) for avg >= 24, (medium, 60) for avg >= 12 and
\* (high, 85) below 12; avg 36 gives (low, 15), avg 6 gives (high, 85) and a
\* job hopper.
C14_RetentionBands ==
    RetentionDone =>
        /\ JobCount = 0 =>
               /\ retention.avg_tenure_months = 0
               /\ retention.risk_level = "unknown"
               /\ retention.risk_score = 50
               /\ ~retention.is_job_hopper
        /\ JobCount > 0 =>
               /\ retention.is_job_hopper = (TotalMonths < 18 * JobCount)
               /\ TotalMonths >= 36 * JobCount =>
                      <<retention.risk_level, retention.risk_score>>
                          = <<"low", 15>>
               /\ (TotalMonths >= 24 * JobCount /\ TotalMonths < 36 * JobCount)
                      => <<retention.risk_level, retention.risk_score>>
                             = <<"medium", 40>>
               /\ (TotalMonths >= 12 * JobCount /\ TotalMonths < 24 * JobCount)
                      => <<retention.risk_level, retention.risk_score>>
                             = <<"medium", 60>>
               /\ TotalMonths < 12 * JobCount =>
                      <<retention.risk_level, retention.risk_score>>
                          = <<"high", 85>>
               /\ TotalMonths = 36 * JobCount =>
                      /\ retention.avg_tenure_months = 360
                      /\ retention.risk_score = 15
               /\ TotalMonths = 6 * JobCount =>
                      /\ retention.avg_tenure_months = 60
                      /\ retention.risk_level = "high"
                      /\ retention.is_job_hopper

\* Three jobs averaging 6 months, one of them without a duration.
C14_Witness ==
    /\ RetentionDone
    /\ JobCount = 3
    /\ \E i \in 1..3 : "duration_months" \notin DOMAIN rm_in.job_history[i]
    /\ retention.avg_tenure_months = 60
    /\ retention.risk_level = "high"
    /\ retention.risk_score = 85
    /\ retention.is_job_hopper

SalaryDone == rm_pc \in {"cultural", "aggregate", "returned"}
\* (ask - market_average) * 100, to be compared with a percentage of the
\* market average.
Overage100 == (rm_in.candidate_ask - rm_in.market_average) * 100

CulturalDone == rm_pc \in {"aggregate", "returned"}
PositiveHits == Len(cultural.positive_signals)
RiskHits == Len(cultural.red_flags)
AllPositive ==
    "Team collaborate learn grow ownership initiative achieve improve impact contribute passionate"

\* C16: empty answers give tone_score 50 and "unknown"; otherwise
\* tone_score = clamp(50 + min(5p, 40) - min(10r, 40), 0, 100) for p positive
\* and r risk keywords found, each counted once, as case-insensitive
\* substrings of the joined answers; the bonus is capped at 40 (all eleven
\* positive keywords and no risk keyword give 90), and risk_level is "low"
\* from 75, "medium" from 50 and "high" below.
C16_ToneScore ==
    CulturalDone =>
        /\ rm_in.answers.list = <<>> =>
               /\ cultural.tone_score = 50
               /\ cultural.risk_level = "unknown"
        /\ rm_in.answers.list # <<>> =>
               /\ cultural.tone_score =
                      Max(0, Min(100, 50 + Min(5 * PositiveHits, 40)
                                         - Min(10 * RiskHits, 40)))
               /\ cultural.tone_score <= 90
               /\ cultural.risk_level =
                      (IF cultural.tone_score >= 75 THEN "low"
                       ELSE IF cultural.tone_score >= 50 THEN "medium"
                       ELSE "high")
        /\ rm_in.answers.list = <<"I love my TEAM">> =>
               /\ cultural.positive_signals = <<"team">>
               /\ cultural.red_flags = <<>>
        /\ rm_in.answers.list = <<"Steamrolled">> =>
               cultural.positive_signals = <<"team">>
        /\ rm_in.answers.list = <<"I love my TEAM", "Steamrolled">> =>
               cultural.positive_signals = <<"team">>
        /\ rm_in.answers.list = <<"just a", "job">> =>
               /\ cultural.red_flags = <<"just a job">>
               /\ cultural.tone_score = 40
        /\ rm_in.answers.list = <<"job", "just a">> =>
               cultural.red_flags = <<>>
        /\ rm_in.answers.list = <<AllPositive>> =>
               /\ PositiveHits = 11
               /\ RiskHits = 0
               /\ cultural.tone_score = 90

\* All eleven positive keywords in one answer: the bonus stops at 40.
C16_Witness ==
    /\ CulturalDone
    /\ rm_in.answers.list = <<AllPositive>>
    /\ PositiveHits = 11
    /\ cultural.tone_score = 90
    /\ cultural.risk_level = "low"

\* C17: build_risk_matrix is total: whatever the arguments (empty skill
\* lists, empty job history, job entries without a duration, ask 0,
\* market_average <= 0, answers absent) no call raises, and what is returned
\* is a RiskMatrix.
C17_NeverRaises ==
    /\ rm_pc # "raised"
    /\ skill_gap # ZeroDivisionError
    /\ Returned =>
           /\ matrix # None
           /\ matrix.risk_color \in {"green", "yellow", "orange", "red"}
           /\ matrix.red_flash_required \in BOOLEAN

\* A matrix returned when every argument is empty, zero or absent.
C17_Witness ==
    /\ Returned
    /\ rm_in.required_skills = <<>>
    /\ rm_in.candidate_skills = <<>>
    /\ rm_in.job_history = <<>>
    /\ rm_in.candidate_ask = 0
    /\ rm_in.market_average = 0
    /\ ~rm_in.answers.given
    /\ matrix.skill_gap.match_percentage = 1000
    /\ matrix.risk_color = "green"

(***************************************************************************)
(* Properties of the memory manager (SpecMemory)                           *)
(***************************************************************************)
GenerationFailed == mm_response # None /\ mm_response.kind = "error"
Unparsable == mm_response # None /\ mm_response.kind # "error"
                  /\ ParseRaises(mm_response)

\* C18: compact_session returns a MemorySnapshot whatever the oracle does
\* and never raises; when generation fails or the output cannot be parsed
\* the summary is the first 500 characters of the conversation text and
\* key_facts is empty.
C18_AlwaysSnapshot ==
    /\ mm_pc # "raised"
    /\ GenerationFailed => mm_pc \in {"parse", "estimate", "returned"}
    /\ (mm_pc = "returned" /\ (GenerationFailed \/ Unparsable)) =>
           /\ mm_result.summary =
                  SubSeq(mm_in.conversation_text, 1,
                         Min(500, Len(mm_in.conversation_text)))
           /\ mm_result.key_facts = <<>>

\* The number of words of a text made by Repeat("word ", n).
Words == Len(mm_in.conversation_text) \div 5
MadeOfWords == mm_in.conversation_text = Repeat("word ", Words)
\* The smallest word count whose estimate reaches the threshold.
SmallestCount == (10 * mm_in.threshold_tokens + 12) \div 13

SummaryFailed == resp["summary"] = "error"

\* C20: a failure of the executive-summary call, made once red_flash and
\* final_decision are computed, is absorbed: run_analysis still returns the
\* report with that final_decision and red_flash and does not raise.
C20_SummaryFailureAbsorbed ==
    SummaryFailed =>
        /\ ra_pc = "returned"
        /\ report # None
        /\ report.final_decision = final_decision
        /\ report.red_flash = red_flash

(***************************************************************************)
(* Further properties of run_analysis (SpecAnalysis)                       *)
(***************************************************************************)
\* C21: when the salary-benchmark call fails (provider unreachable or a
\* non-200 answer) get_market_intelligence does not raise and its result
\* carries salary_risk "unknown", whatever the salary ask.
C21_ProviderFailureNeutral ==
    FailedSalaryProvider =>
        /\ d_pc # "raised"
        /\ task["D"] # "failed"
        /\ result["D"] # None => result["D"].salary_risk = "unknown"


\* C24: run_worker_a and run_worker_c never raise; after an oracle failure,
\* an unparseable response or a response that fails validation the result
\* is exactly the fixed fallback record, and otherwise it is the parsed
\* report whole: no result mixes parsed and default fields.
C24_WorkerFallbacks ==
    /\ task["A"] # "failed" /\ task["C"] # "failed"
    /\ result["A"] # None =>
          IF FailedA
          THEN result["A"] = [vision_2030_alignment |-> "MEDIUM",
                              domain_color |-> "yellow",
                              domain_alert |-> FALSE]
          ELSE result["A"] \in ParsedA
    /\ result["C"] # None =>
          IF FailedC
          THEN result["C"] = [overall_score |-> 50, skill_match_pct |-> 50,
                              recommendation |-> "screen",
                              risk_level |-> "medium"]
          ELSE result["C"] \in ParsedC

\* Worker A got an unparseable response and worker C one that fails
\* validation; both returned their fallback.
C24_Witness ==
    /\ resp["A"] = "garbled" /\ task["A"] = "done"
    /\ resp["C"] = "illtyped" /\ task["C"] = "done"
    /\ result["A"] = FallbackA
    /\ result["C"] = FallbackC

\* The report as a function of the three returned values alone.
ReportOf(a, c, d) ==
    LET score == (IF c.risk_level = "high" THEN 40 ELSE 0)
                 + (IF d.salary_risk = "high" THEN 35 ELSE 0)
                 + (IF a.domain_alert THEN 25 ELSE 0)
        flash == score >= 70
    IN  [worker_a |-> a,
         worker_c |-> c,
         worker_d |-> [market |-> d,
                       salary_risk |-> d.salary_risk,
                       company_trend |-> IF d.company # None
                                         THEN d.company.trend ELSE "unknown",
                       financial_alert |-> (d.salary_risk = "high")],
         final_decision |-> IF c.overall_score >= 85 /\ ~flash THEN "advance"
                            ELSE IF c.overall_score >= 60 THEN "screen"
                            ELSE "reject",
         red_flash |-> flash]

ReportFromResults ==
    ra_pc = "returned" => report = ReportOf(result["A"], result["C"], result["D"])

\* A step that sets a worker's result touches no other worker's result or
\* task, touches worker D's locals only if it is D's step, and touches
\* nothing of the merge.
WorkersIsolated ==
    \A w \in Workers :
        result'[w] # result[w] =>
            /\ \A v \in Workers \ {w} :
                  result'[v] = result[v] /\ task'[v] = task[v]
            /\ w # "D" => UNCHANGED <<d_pc, salary_data>>
            /\ UNCHANGED <<worker_d, risk_score, red_flash, final_decision,
                           report>>

Merged == ra_pc \in {"summary", "returned"}

\* C26: the composite risk score is one of 0, 25, 35, 40, 60, 65, 75, 100;
\* red_flash is true exactly when worker C's risk_level and worker D's
\* salary_risk are both "high"; worker A's domain_alert, alone or with one
\* of the two, never turns red_flash on, so final_decision is what the
\* score and the two other signals give.
C26_RedFlashNeedsBoth ==
    Merged =>
        LET both == /\ result["C"].risk_level = "high"
                    /\ result["D"].salary_risk = "high"
            s == result["C"].overall_score
        IN  /\ risk_score \in {0, 25, 35, 40, 60, 65, 75, 100}
            /\ red_flash <=> both
            /\ (result["A"].domain_alert /\ ~both) => ~red_flash
            /\ final_decision = IF s >= 85 /\ ~both THEN "advance"
                                ELSE IF s >= 60 THEN "screen" ELSE "reject"

\* domain_alert together with a high salary risk only: composite 60, no
\* red flash, and a score of 90 still advances.
C26_Witness ==
    /\ ra_pc = "returned"
    /\ result["A"].domain_alert
    /\ result["C"].risk_level # "high"
    /\ result["D"].salary_risk = "high"
    /\ result["C"].overall_score = 90
    /\ risk_score = 60
    /\ ~report.red_flash
    /\ report.final_decision = "advance"

\* C27: whenever worker C's fallback report is used, red_flash is false
\* and final_decision is "reject", whatever A and D return; final_decision
\* then differs from the recommendation the fallback report carries.
C27_FallbackRejects ==
    (Merged /\ FailedC) =>
        /\ result["C"].overall_score = 50
        /\ result["C"].risk_level = "medium"
        /\ result["C"].recommendation = "screen"
        /\ ~red_flash
        /\ final_decision = "reject"
        /\ final_decision # result["C"].recommendation

\* Worker C fell back while A raised its alert and D found a high salary
\* risk.
C27_Witness ==
    /\ ra_pc = "returned"
    /\ FailedC
    /\ report.worker_c = FallbackC
    /\ report.worker_a.domain_alert
    /\ report.worker_d.salary_risk = "high"
    /\ report.final_decision = "reject"

\* C29: for an ask > 0 and a market average > 0 the risk_level of
\* assess_salary_risk is the salary_risk get_market_intelligence computes
\* for the same ask and average: the RiskMatrix and the market worker do
\* not disagree.
C29_SalaryLevelsAgree ==
    (SalaryDone /\ rm_in.candidate_ask > 0 /\ rm_in.market_average > 0) =>
        /\ rm_salary.risk_level
               = SalaryRisk(rm_in.candidate_ask, rm_in.market_average)
        /\ rm_salary.risk_level \in {"high", "medium", "low"}

\* 115000 asked against 100000: an overage of exactly 15 percent, "medium"
\* on both sides.
C29_Witness ==
    /\ SalaryDone
    /\ rm_in.candidate_ask = 115000
    /\ rm_in.market_average = 100000
    /\ rm_salary.risk_level = "medium"
    /\ SalaryRisk(115000, 100000) = "medium"

(***************************************************************************)
(* Properties of the request handlers (SpecApi)                            *)
(***************************************************************************)
Ended == api_pc = "done"
Logged(call) == \E i \in 1..Len(api_log) : api_log[i] = call
EntityMissing ==
    /\ api_in.op \in {"analyze_candidate", "evaluate_screening"}
    /\ api_log \in {<<"get_candidate">>, <<"get_screening_session">>}
    /\ api_read = "none"

\* C22: when the screening session (evaluate_screening) or the candidate
\* (analyze_candidate) does not exist, the caller receives a not-found
\* failure, which a failed read or a failed analysis never produces, and
\* nothing but the lookup has been done.
C22_NotFoundExplicit ==
    (Ended /\ EntityMissing) =>
        /\ api_out.kind = "raised"
        /\ api_out.type = "HTTPException" /\ api_out.status_code = 404
        /\ api_log \in {<<"get_candidate">>, <<"get_screening_session">>}

(***************************************************************************)
(* Further properties of build_risk_matrix (SpecRisk)                      *)
(***************************************************************************)
\* The weighted sum of C23, in thousandths, from match_percentage (tenths),
\* the retention score, the salary level and the tone score.
WeightedSum(match_percentage, retentionRisk, salary_level, tone_score) ==
      35 * (1000 - match_percentage)
    + 250 * retentionRisk
    + 250 * (CASE salary_level = "high" -> 80
               [] salary_level = "medium" -> 40
               [] OTHER -> 10)
    + 150 * (100 - tone_score)

\* C23: aggregate_risk_score is (35*skillRisk + 25*retentionRisk
\* + 25*salaryRisk + 15*culturalRisk)/100 rounded to one decimal, with
\* skillRisk = 100 - match_percentage of calculate_skill_gap on the same two
\* lists, retentionRisk = retention.risk_score, salaryRisk 80 / 40 / 10 for
\* high / medium / any other level, culturalRisk = 100 - tone_score.
C23_AggregateFormula ==
    Returned =>
        LET gap == calculate_skill_gap(rm_in.required_skills,
                                       rm_in.candidate_skills)
            sum == WeightedSum(gap.match_percentage,
                               matrix.retention.risk_score,
                               matrix.salary.risk_level,
                               matrix.cultural.tone_score)
        IN  /\ gap = matrix.skill_gap
            /\ 100 * matrix.aggregate_risk_score - sum \in -50..50

\* A matrix with a partial skill match, a short tenure, an ask far above
\* the market and a negative tone.
C23_Witness ==
    /\ Returned
    /\ matrix.skill_gap.match_percentage \notin {0, 1000}
    /\ matrix.retention.risk_score > 0
    /\ matrix.salary.risk_level = "high"
    /\ matrix.cultural.tone_score < 50


Position(call) ==
    IF Logged(call)
    THEN CHOOSE i \in 1..Len(api_log) : api_log[i] = call
    ELSE 0
Screening == api_in.op = "evaluate_screening"
DegradedEvaluation ==
    /\ api_eval # None
    /\ ~api_eval.validated
    /\ api_eval.total_score = 50

Downstream ==
    \/ Logged("convert_to_text")
    \/ Logged("parse_cv_with_gemini")
    \/ Logged("cv_data")
    \/ Logged("save_candidate")
Uploading == api_in.op \in {"process_cv", "upload_cv"}

\* C30: no uploaded file passes unscanned.  Conversion, parsing and the
\* candidate write start only after the malware scan of the file has
\* completed with safe = true, which takes engines that analysed the file;
\* after a detection or a failed scan call none of them happens.
C30_NoFilePassesUnscanned ==
    Uploading =>
        /\ Downstream =>
              /\ api_log[1] = "scan_file"
              /\ api_scan # None
              /\ api_scan.safe
              /\ api_scan.total_engines > 0
        /\ (Logged("scan_file") /\ api_scan = None) => ~Downstream
        /\ (api_scan # None
            /\ api_scan.malicious_count + api_scan.suspicious_count > 0)
               => ~Downstream
(***************************************************************************)
(* Specifications                                                          *)
(***************************************************************************)
InitAnalysis ==
    /\ salary_ask \in AskValues
    /\ company_symbol \in BOOLEAN
    /\ OrchIdle
    /\ EvalIdle
    /\ RiskIdle
    /\ MemIdle
    /\ ApiIdle

NextAnalysis ==
    \/ StartAnalysis /\ UNCHANGED <<evalVars, riskVars, memVars, apiVars>>
    \/ RunWorkerA /\ UNCHANGED <<evalVars, riskVars, memVars, apiVars>>
    \/ RunWorkerC /\ UNCHANGED <<evalVars, riskVars, memVars, apiVars>>
    \/ StartWorkerD /\ UNCHANGED <<evalVars, riskVars, memVars, apiVars>>
    \/ AdzunaResponse /\ UNCHANGED <<evalVars, riskVars, memVars, apiVars>>
    \/ MarketstackResponse /\ UNCHANGED <<evalVars, riskVars, memVars, apiVars>>
    \/ GatherResume /\ UNCHANGED <<evalVars, riskVars, memVars, apiVars>>
    \/ Merge /\ UNCHANGED <<evalVars, riskVars, memVars, apiVars>>
    \/ Summary /\ UNCHANGED <<evalVars, riskVars, memVars, apiVars>>

SpecAnalysis == InitAnalysis /\ [][NextAnalysis]_vars

InitEvaluate ==
    /\ salary_ask = 0
    /\ company_symbol = FALSE
    /\ OrchIdle
    /\ EvalIdle
    /\ RiskIdle
    /\ MemIdle
    /\ ApiIdle

NextEvaluate ==
    \/ Pass1 /\ UNCHANGED <<orchVars, riskVars, memVars, apiVars>>
    \/ Pass2 /\ UNCHANGED <<orchVars, riskVars, memVars, apiVars>>

SpecEvaluate == InitEvaluate /\ [][NextEvaluate]_vars

InitRisk ==
    /\ salary_ask = 0
    /\ company_symbol = FALSE
    /\ OrchIdle
    /\ EvalIdle
    /\ MemIdle
    /\ ApiIdle
    /\ rm_in \in RiskInputs
    /\ rm_pc = "skill_gap"
    /\ skill_gap = None
    /\ retention = None
    /\ rm_salary = None
    /\ cultural = None
    /\ matrix = None

NextRisk ==
    \/ CalcSkillGap /\ UNCHANGED <<orchVars, evalVars, memVars, apiVars>>
    \/ AssessRetention /\ UNCHANGED <<orchVars, evalVars, memVars, apiVars>>
    \/ AssessSalary /\ UNCHANGED <<orchVars, evalVars, memVars, apiVars>>
    \/ AssessCultural /\ UNCHANGED <<orchVars, evalVars, memVars, apiVars>>
    \/ BuildMatrix /\ UNCHANGED <<orchVars, evalVars, memVars, apiVars>>

SpecRisk == InitRisk /\ [][NextRisk]_vars

InitMemory ==
    /\ salary_ask = 0
    /\ company_symbol = FALSE
    /\ OrchIdle
    /\ EvalIdle
    /\ RiskIdle
    /\ ApiIdle
    /\ mm_in \in [conversation_text : Conversations,
                  threshold_tokens : Thresholds]
    /\ mm_pc = "should_compact"
    /\ mm_should = None
    /\ mm_response = None
    /\ mm_parsed = None
    /\ mm_result = None

NextMemory ==
    \/ ShouldCompact /\ UNCHANGED <<orchVars, evalVars, riskVars, apiVars>>
    \/ Generate /\ UNCHANGED <<orchVars, evalVars, riskVars, apiVars>>
    \/ Parse /\ UNCHANGED <<orchVars, evalVars, riskVars, apiVars>>
    \/ Snapshot /\ UNCHANGED <<orchVars, evalVars, riskVars, apiVars>>

SpecMemory == InitMemory /\ [][NextMemory]_vars

InitApi ==
    /\ salary_ask = 0
    /\ company_symbol = FALSE
    /\ OrchIdle
    /\ EvalIdle
    /\ RiskIdle
    /\ MemIdle
    /\ api_in \in Requests
    /\ api_read = "unread"
    /\ api_pc = "start"
    /\ api_log = <<>>
    /\ api_eval = None
    /\ api_scan = None
    /\ api_pdf = FALSE
    /\ api_out = None

NextApi ==
    \/ AnalyzeGetCandidate /\ UNCHANGED <<orchVars, evalVars, riskVars, memVars>>
    \/ AnalyzeRun /\ UNCHANGED <<orchVars, evalVars, riskVars, memVars>>
    \/ ScreenGetSession /\ UNCHANGED <<orchVars, evalVars, riskVars, memVars>>
    \/ ScreenEvaluate /\ UNCHANGED <<orchVars, evalVars, riskVars, memVars>>
    \/ ScreenGetCandidate /\ UNCHANGED <<orchVars, evalVars, riskVars, memVars>>
    \/ ScreenPdf /\ UNCHANGED <<orchVars, evalVars, riskVars, memVars>>
    \/ ScreenSaveScore /\ UNCHANGED <<orchVars, evalVars, riskVars, memVars>>
    \/ ScreenReminder /\ UNCHANGED <<orchVars, evalVars, riskVars, memVars>>
    \/ CvScan /\ UNCHANGED <<orchVars, evalVars, riskVars, memVars>>
    \/ CvConvert /\ UNCHANGED <<orchVars, evalVars, riskVars, memVars>>
    \/ CvParse /\ UNCHANGED <<orchVars, evalVars, riskVars, memVars>>
    \/ UploadSuffix /\ UNCHANGED <<orchVars, evalVars, riskVars, memVars>>
    \/ UploadScan /\ UNCHANGED <<orchVars, evalVars, riskVars, memVars>>
    \/ UploadSave /\ UNCHANGED <<orchVars, evalVars, riskVars, memVars>>

SpecApi == InitApi /\ [][NextApi]_vars

====
